---- MODULE Spec2Model ----
(***************************************************************************)
(* A model of polanalyser's two pipelines:                                 *)
(*   - stokes.py: calcStokes / calcLinearStokes and the cvtStokesTo*       *)
(*     kernels (specifications SpecStokes and SpecAoLP);                   *)
(*   - demosaicing.py: demosaicing and its mono / color paths              *)
(*     (specification SpecDemosaic).                                       *)
(* Arrays are functions over their index sets.  The Stokes fit and the     *)
(* algebraic kernels are computed in exact rational arithmetic extended    *)
(* with the IEEE specials (NaN, +Inf, -Inf); cvtStokesToAoLP, whose upper   *)
(* end is decided by rounding, is computed in a small binary floating      *)
(* point format with round-to-nearest-even.                                *)
(***************************************************************************)
EXTENDS Integers, Sequences, FiniteSets, TLC

VARIABLES
    \* ---- stokes.py (SpecStokes) ----
    img_stokes,   \* the Stokes image handed to the kernels and used to synthesise I
    theta,        \* polarizer angles (degrees) handed to calcLinearStokes
    I,            \* observed intensities, per pixel one value per angle
    S,            \* result of calcLinearStokes, "none" before the call
    out,          \* kernel name -> returned image, or "none" before the call
    raised,       \* whether a kernel call ended in an exception
    spc,          \* position of the stokes driver
    \* ---- cvtStokesToAoLP (SpecAoLP) ----
    img_s12,      \* per pixel <<S1, S2>> as floating point numbers
    img_AoLP,     \* the returned AoLP image, "none" before the call
    apc,          \* position of the AoLP driver
    \* ---- demosaicing.py (SpecDemosaic) ----
    code,         \* the `code` argument
    img_raw,      \* the frame of the innermost active call of demosaicing
    outer,        \* stack of suspended calls (the floating point path)
    pc,           \* position in demosaicing.py
    it,           \* loop counter of __demosaicing_color
    img_mpfa_bgr, \* the full-resolution BGR buffer of stage 1
    img_bgr,      \* the four output buffers img_bgr_000 .. img_bgr_135
    result,       \* what the innermost finished call returned
    err,          \* the exception that ended the call, and the test raising it
    ops,          \* the computations executed so far, in order
    calls,        \* number of calls of demosaicing so far
    written,      \* per pixel of img_mpfa_bgr: how often stage 1 wrote it
    reads         \* per pixel of img_mpfa_bgr: the mosaic samples it was computed from

svars == <<img_stokes, theta, I, S, out, raised, spc>>
avars == <<img_s12, img_AoLP, apc>>
dvars == <<code, img_raw, outer, pc, it, img_mpfa_bgr, img_bgr, result, err,
           ops, calls, written, reads>>
vars == <<svars, avars, dvars>>

(***************************************************************************)
(* Exact numbers: a finite rational n/d (d > 0, lowest terms) or a special *)
(***************************************************************************)
Abs(x) == IF x < 0 THEN -x ELSE x

RECURSIVE Gcd(_, _)
Gcd(a, b) == IF b = 0 THEN a ELSE Gcd(b, a % b)

Q(n, d) ==
    LET s == IF d < 0 THEN -1 ELSE 1
        g == Gcd(Abs(n), Abs(d))
    IN  [k |-> "fin", n |-> (s * n) \div g, d |-> (s * d) \div g]

Z(n) == [k |-> "fin", n |-> n, d |-> 1]
NaN == [k |-> "nan", n |-> 0, d |-> 1]
PosInf == [k |-> "inf", n |-> 1, d |-> 1]
NegInf == [k |-> "inf", n |-> -1, d |-> 1]
IsFinite(x) == x.k = "fin"

\* x + y, x - y, x * y on finite numbers (the kernels' operands are finite
\* until a division by zero, which is the last operation of cvtStokesToDoLP)
RAdd(x, y) == Q(x.n * y.d + y.n * x.d, x.d * y.d)
RSub(x, y) == Q(x.n * y.d - y.n * x.d, x.d * y.d)
RMul(x, y) == Q(x.n * y.n, x.d * y.d)
RLe(x, y) == x.n * y.d <= y.n * x.d

(***************************************************************************)
(* Small dense linear algebra over the exact numbers.  A matrix is a       *)
(* sequence of rows.                                                       *)
(***************************************************************************)
RECURSIVE RSum(_, _)
RSum(f, n) == IF n = 0 THEN Z(0) ELSE RAdd(RSum(f, n - 1), f[n])

Dot(u, v) == RSum([k \in 1..Len(u) |-> RMul(u[k], v[k])], Len(u))

Transpose(A) == [c \in 1..Len(A[1]) |-> [r \in 1..Len(A) |-> A[r][c]]]

MatMul(A, B) ==
    LET Bt == Transpose(B)
    IN  [r \in 1..Len(A) |-> [c \in 1..Len(Bt) |-> Dot(A[r], Bt[c])]]

\* determinant and inverse of a 3x3 matrix by cofactors
Minor2(G, r1, r2, c1, c2) ==
    RSub(RMul(G[r1][c1], G[r2][c2]), RMul(G[r1][c2], G[r2][c1]))

Others(k) == IF k = 1 THEN <<2, 3>> ELSE IF k = 2 THEN <<1, 3>> ELSE <<1, 2>>

Cofactor(G, r, c) ==
    LET m == Minor2(G, Others(r)[1], Others(r)[2], Others(c)[1], Others(c)[2])
    IN  IF (r + c) % 2 = 0 THEN m ELSE RSub(Z(0), m)

Det3(G) ==
    RSum([c \in 1..3 |-> RMul(G[1][c], Cofactor(G, 1, c))], 3)

Inv3(G) ==
    LET dt == Det3(G)
    IN  [r \in 1..3 |-> [c \in 1..3 |->
            Q(Cofactor(G, c, r).n * dt.d, Cofactor(G, c, r).d * dt.n)]]

\* np.linalg.pinv of an N x 3 matrix of full column rank: (A^T A)^-1 A^T
pinv(A) == MatMul(Inv3(MatMul(Transpose(A), A)), Transpose(A))

(***************************************************************************)
(* mueller.polarizer: the Mueller matrix of a linear polarizer at angle t  *)
(* (degrees, a multiple of 45), 0.5 * [[1, c, s, 0], [c, c*c, s*c, 0],     *)
(* [s, s*c, s*s, 0], [0, 0, 0, 0]] with c = cos 2t, s = sin 2t.            *)
(***************************************************************************)
Cos2(t) == CASE t % 180 = 0 -> 1 [] t % 180 = 90 -> -1 [] OTHER -> 0
Sin2(t) == CASE t % 180 = 45 -> 1 [] t % 180 = 135 -> -1 [] OTHER -> 0

polarizer(t) ==
    LET c == Cos2(t)
        s == Sin2(t)
        m == << <<1, c, s, 0>>, <<c, c * c, s * c, 0>>,
                <<s, s * c, s * s, 0>>, <<0, 0, 0, 0>> >>
    IN  [r \in 1..4 |-> [cc \in 1..4 |-> Q(m[r][cc], 2)]]

\* calcStokes with the transpose of A in place of its pseudo-inverse
calcStokes_Transposed(II, M) ==
    LET A == [k \in 1..Len(M) |-> M[k][1]]
        A_t == Transpose(A)
    IN  [p \in DOMAIN II |-> [r \in 1..Len(A_t) |-> Dot(A_t[r], II[p])]]

\* calcStokes(I, M): A is the stack of first rows of the Mueller matrices,
\* S = tensordot(pinv(A), I) moved to (..., 3)
calcStokes(II, M) ==
    LET A == [k \in 1..Len(M) |-> M[k][1]]
        A_pinv == pinv(A)
    IN  [p \in DOMAIN II |-> [r \in 1..Len(A_pinv) |-> Dot(A_pinv[r], II[p])]]

\* calcLinearStokes(I, theta): M = polarizer(theta)[..., :3, :3]
calcLinearStokes(II, th) ==
    LET M == [k \in 1..Len(th) |->
                 [r \in 1..3 |-> [c \in 1..3 |-> polarizer(th[k])[r][c]]]]
    IN  calcStokes(II, M)

(***************************************************************************)
(* The derived-quantity kernels (numba array expressions: elementwise,     *)
(* with numpy's error model, in which a division by zero yields a special  *)
(* value and raises nothing).                                              *)
(***************************************************************************)
SqrtDen == 16

\* np.sqrt of a finite x >= 0, to a resolution of 1/SqrtDen
RSqrt(x) ==
    LET t == (x.n * SqrtDen * SqrtDen) \div x.d
        r == CHOOSE r \in 0..(t + 1) : r * r <= t /\ (r + 1) * (r + 1) > t
    IN  Q(r, SqrtDen)

\* x / y under numpy's error model
RDiv(x, y) ==
    IF y.n # 0 THEN Q(x.n * y.d, x.d * y.n)
    ELSE IF x.n = 0 THEN NaN
    ELSE IF x.n > 0 THEN PosInf ELSE NegInf

Half == Q(1, 2)
Norm12(px) == RSqrt(RAdd(RMul(px[2], px[2]), RMul(px[3], px[3])))

cvtStokesToImax(img) ==
    [p \in DOMAIN img |-> RMul(RAdd(img[p][1], Norm12(img[p])), Half)]

\* cvtStokesToImin with the sign of cvtStokesToImax
cvtStokesToImin_Plus(img) ==
    [p \in DOMAIN img |-> RMul(RAdd(img[p][1], Norm12(img[p])), Half)]

cvtStokesToImin(img) ==
    [p \in DOMAIN img |-> RMul(RSub(img[p][1], Norm12(img[p])), Half)]

\* cvtStokesToDoLP under Python's error model, in which a division by zero
\* raises ZeroDivisionError
cvtStokesToDoLP_PythonDiv(img) ==
    [p \in DOMAIN img |->
        IF img[p][1].n = 0 THEN [k |-> "err", n |-> 0, d |-> 1]
        ELSE RDiv(Norm12(img[p]), img[p][1])]

cvtStokesToDoLP(img) ==
    [p \in DOMAIN img |-> RDiv(Norm12(img[p]), img[p][1])]

cvtStokesToIntensity(img) ==
    [p \in DOMAIN img |-> RMul(img[p][1], Half)]

cvtStokesToDiffuse(img) ==
    LET Imin == cvtStokesToImin(img)
    IN  [p \in DOMAIN img |-> RMul(Z(1), Imin[p])]

cvtStokesToSpecular(img) ==
    [p \in DOMAIN img |-> Norm12(img[p])]

(***************************************************************************)
(* cvtStokesToAoLP in binary floating point.  A float is an integer count  *)
(* of quanta 2^-FracBits whose magnitude fits MantBits bits of mantissa;   *)
(* results are rounded to nearest, ties to even, as IEEE 754 does.         *)
(***************************************************************************)
FracBits == 6
MantBits == 6
PiNum == 3217
PiDen == 1024

RECURSIVE Pow2(_)
Pow2(n) == IF n = 0 THEN 1 ELSE 2 * Pow2(n - 1)

RECURSIVE BitLen(_)
BitLen(a) == IF a = 0 THEN 0 ELSE 1 + BitLen(a \div 2)

\* the float nearest to n/d quanta (d > 0)
FRound(n, d) ==
    LET sg == IF n < 0 THEN -1 ELSE 1
        a == Abs(n)
        q == a \div d
        step == IF q < Pow2(MantBits) THEN 1 ELSE Pow2(BitLen(q) - MantBits)
        lo == (q \div step) * step
        rem2 == 2 * (a - lo * d)
    IN  IF rem2 < step * d THEN sg * lo
        ELSE IF rem2 > step * d THEN sg * (lo + step)
        ELSE IF (lo \div step) % 2 = 0 THEN sg * lo ELSE sg * (lo + step)

One == Pow2(FracBits)
\* np.pi and its fractions, as floats
FPi == FRound(PiNum * One, PiDen)
FPiFrac(k, m) == FRound(k * PiNum * One, m * PiDen)

SmallMax == 4

\* np.arctan2(y, x) on the inputs of the model: the axes, the diagonals,
\* and small angles y/x with x = 1.0, where arctan t = t to the precision
\* of the format
arctan2(y, x) ==
    LET sg == IF y < 0 THEN -1 ELSE 1
    IN  CASE y = 0 /\ x >= 0 -> 0
          [] y = 0 /\ x < 0 -> FPi
          [] y # 0 /\ x = 0 -> sg * FPiFrac(1, 2)
          [] y # 0 /\ Abs(y) = Abs(x) ->
                 sg * (IF x > 0 THEN FPiFrac(1, 4) ELSE FPiFrac(3, 4))
          [] OTHER -> FRound(y * One, x)

\* C fmod: exact, with the sign of a
fmod(a, b) == IF a < 0 THEN -(Abs(a) % Abs(b)) ELSE a % Abs(b)

\* np.mod on floats: fmod, then the divisor is added when the signs differ
npmod(a, b) ==
    LET m == fmod(a, b)
    IN  IF m # 0 /\ ((b < 0) # (m < 0)) THEN FRound(m + b, 1) ELSE m

cvtStokesToAoLP(img) ==
    [p \in DOMAIN img |->
        npmod(FRound(arctan2(img[p][2], img[p][1]), 2), FPi)]

(***************************************************************************)
(* demosaicing.py.  A frame is [dtype, shape, px]: px maps every index     *)
(* tuple of the shape (0-based) to a sample.  An image of three channels   *)
(* maps <<y, x, c>> with c = 0, 1, 2 for B, G, R.                          *)
(***************************************************************************)
COLOR_PolarRGB == [is_code |-> TRUE, is_color |-> TRUE, suffix |-> ""]
COLOR_PolarMono == [is_code |-> TRUE, is_color |-> FALSE, suffix |-> ""]
COLOR_PolarRGB_VNG == [is_code |-> TRUE, is_color |-> TRUE, suffix |-> "_VNG"]
COLOR_PolarMono_VNG == [is_code |-> TRUE, is_color |-> FALSE, suffix |-> "_VNG"]
COLOR_PolarRGB_EA == [is_code |-> TRUE, is_color |-> TRUE, suffix |-> "_EA"]
COLOR_PolarMono_EA == [is_code |-> TRUE, is_color |-> FALSE, suffix |-> "_EA"]
\* an argument that is no ColorConversionCode (an OpenCV integer code, say)
NotACode == [is_code |-> FALSE, is_color |-> FALSE, suffix |-> ""]

Floating == {"float32", "float64"}
U16Max == 65535
Uninit == -1

Idx2(h, w) == (0..(h - 1)) \X (0..(w - 1))
Idx3(h, w, c) == (0..(h - 1)) \X (0..(w - 1)) \X (0..(c - 1))
Indices(shape) ==
    CASE Len(shape) = 1 -> {<<k>> : k \in 0..(shape[1] - 1)}
      [] Len(shape) = 2 -> Idx2(shape[1], shape[2])
      [] OTHER -> Idx3(shape[1], shape[2], shape[3])

\* ---- cv2.cvtColor(img, COLOR_Bayer<bayer>2BGR<suffix>) ----
\* OpenCV interpolates the pixels one away from the border and more, copies
\* their values outwards to the border, and leaves an image with fewer than
\* 3 rows or columns zero.  bayer is "BG" or "GR".
Avg2(a, b) == (a + b + 1) \div 2
Avg4(a, b, c, d) == (a + b + c + d + 2) \div 4

\* the 8-bit-only kernel: the VNG interpolation exists for CV_8U alone
CvSupports(suffix, dtype) == suffix # "_VNG" \/ dtype = "uint8"

\* the samples cvtColor reads for the interior pixel <<y, x>>
Window(y, x) == ((y - 1)..(y + 1)) \X ((x - 1)..(x + 1))

DebayerAt(px, y, x, bayer, suffix) ==
    LET rowOdd == (y - 1) % 2 = 1
        start_with_green == (bayer = "GR") # rowOdd
        blue == IF (bayer = "BG") # rowOdd THEN -1 ELSE 1
        green == start_with_green = ((x - 1) % 2 = 0)
        ctr == px[<<y, x>>]
        up == px[<<y - 1, x>>]
        dn == px[<<y + 1, x>>]
        lf == px[<<y, x - 1>>]
        rt == px[<<y, x + 1>>]
        diag == Avg4(px[<<y - 1, x - 1>>], px[<<y - 1, x + 1>>],
                     px[<<y + 1, x - 1>>], px[<<y + 1, x + 1>>])
        cross == IF suffix = "_EA"
                   THEN IF Abs(lf - rt) > Abs(up - dn)
                          THEN Avg2(up, dn) ELSE Avg2(lf, rt)
                   ELSE Avg4(up, dn, lf, rt)
        \* channel offsets -blue, 0, blue around the green channel 1
        atMinusBlue == IF green THEN Avg2(up, dn) ELSE diag
        atZero == IF green THEN ctr ELSE cross
        atBlue == IF green THEN Avg2(lf, rt) ELSE ctr
    IN  [c \in 0..2 |->
            IF c = 1 THEN atZero
            ELSE IF c = 1 - blue THEN atMinusBlue ELSE atBlue]

Clamp(v, lo, hi) == IF v < lo THEN lo ELSE IF v > hi THEN hi ELSE v

Debayer(px, h, w, bayer, suffix) ==
    [q \in Idx3(h, w, 3) |->
        IF h <= 2 \/ w <= 2 THEN 0
        ELSE DebayerAt(px, Clamp(q[1], 1, h - 2), Clamp(q[2], 1, w - 2),
                       bayer, suffix)[q[3]]]

\* the samples of the frame that pixel <<y, x>> of Debayer's result depends on
DebayerReads(h, w, y, x) ==
    IF h <= 2 \/ w <= 2 THEN {}
    ELSE Window(Clamp(y, 1, h - 2), Clamp(x, 1, w - 2))

\* cv2.split(img)[c]
Channel(img, h, w, c) == [q \in Idx2(h, w) |-> img[<<q[1], q[2], c>>]]

\* __demosaicing_mono reading the debayered images as RGB instead of BGR
demosaicing_mono_RGB(px, h, w, suffix) ==
    LET img_debayer_bg == Debayer(px, h, w, "BG", suffix)
        img_debayer_gr == Debayer(px, h, w, "GR", suffix)
    IN  <<Channel(img_debayer_bg, h, w, 2), Channel(img_debayer_gr, h, w, 2),
          Channel(img_debayer_bg, h, w, 0), Channel(img_debayer_gr, h, w, 0)>>

\* __demosaicing_mono
demosaicing_mono(px, h, w, suffix) ==
    LET img_debayer_bg == Debayer(px, h, w, "BG", suffix)
        img_debayer_gr == Debayer(px, h, w, "GR", suffix)
        img_000 == Channel(img_debayer_bg, h, w, 0)
        img_090 == Channel(img_debayer_bg, h, w, 2)
        img_045 == Channel(img_debayer_gr, h, w, 0)
        img_135 == Channel(img_debayer_gr, h, w, 2)
    IN  <<img_000, img_045, img_090, img_135>>

\* ---- __demosaicing_color, stage 1 ----
\* the index in img_cpfa of element <<y, x>> of img_cpfa[j::2, i::2]
StrideIndex(j, i, y, x) == <<2 * y + j, 2 * x + i>>
StrideLen(n, o) == (n - o + 1) \div 2

\* img_cpfa[j::2, i::2]
DownSample(px, h, w, j, i) ==
    [q \in Idx2(StrideLen(h, j), StrideLen(w, i)) |->
        px[StrideIndex(j, i, q[1], q[2])]]

\* the write-back with the offsets exchanged: buffer[i::2, j::2]
StrideTargets_Swapped(h, w, j, i) ==
    {q \in Idx2(h, w) : q[1] % 2 = i /\ q[2] % 2 = j}

\* the pixels of an h x w buffer that buffer[j::2, i::2] addresses
StrideTargets(h, w, j, i) == {q \in Idx2(h, w) : q[1] % 2 = j /\ q[2] % 2 = i}

\* img_mpfa_bgr[j::2, i::2] = img_bgr_ij
UpSample(buf, h, w, img_bgr_ij, j, i) ==
    [q \in DOMAIN buf |->
        IF <<q[1], q[2]>> \in StrideTargets(h, w, j, i)
          THEN img_bgr_ij[<<q[1] \div 2, q[2] \div 2, q[3]>>]
          ELSE buf[q]]

\* ---- __demosaicing_color, stage 2 ----
\* img_bgr_xxx[..., i] = img_xxx for the four orientations
SetPlane(bufs, plane, imgs) ==
    [k \in 1..4 |-> [q \in DOMAIN bufs[k] |->
        IF q[3] = plane THEN imgs[k][<<q[1], q[2]>>] ELSE bufs[k][q]]]

\* ---- the floating point path of demosaicing ----
Max(ss) == CHOOSE m \in ss : \A v \in ss : v <= m
Min(ss) == CHOOSE m \in ss : \A v \in ss : m <= v
Samples(px) == {px[q] : q \in DOMAIN px}

\* np.clip(v * scale, 0, 65535).astype(np.uint16) with scale = 65535.0 / mx;
\* for mx = 0 the scale is inf: a negative v gives -inf, clipped to 0, and
\* v = 0 gives NaN, whose conversion to uint16 is undefined (nan_cast)
ToU16(v, mx, nan_cast) ==
    IF mx = 0 THEN (IF v = 0 THEN nan_cast ELSE 0)
    ELSE LET n == IF mx < 0 THEN -(v * U16Max) ELSE v * U16Max
         IN  Clamp(n \div Abs(mx), 0, U16Max)

\* the division by scale left out: the 16-bit values are returned as they are
Unscale_Missing(x, mx) == Z(x)

\* x / scale
Unscale(x, mx) == IF mx = 0 THEN Z(0) ELSE Q(x * mx, U16Max)

(***************************************************************************)
(* Inputs                                                                  *)
(***************************************************************************)
NPix == 2
Pixels == 1..NPix
StokesVals == {-2, 0, 1}
StokesImages ==
    [Pixels -> {<<Z(a), Z(b), Z(c)>> : a, b \in StokesVals, c \in {0, 1}}]
AngleLists == {<<0, 45, 90, 135>>, <<90, 0, 45>>}

\* <<S1, S2>> pairs handed to cvtStokesToAoLP
AoLPInputs ==
    {<<x, y>> : x, y \in {-One, 0, One}}
        \cup {<<One, y>> : y \in (-SmallMax)..SmallMax}

\* ---- frames handed to demosaicing ----
Codes == {COLOR_PolarRGB, COLOR_PolarMono, COLOR_PolarRGB_VNG,
          COLOR_PolarMono_VNG, COLOR_PolarRGB_EA, COLOR_PolarMono_EA, NotACode}
Dtypes == {"uint8", "uint16", "float32", "float64", "int16"}
Shapes == {<<4>>, <<2, 2>>, <<4, 4>>, <<4, 6>>, <<6, 6>>, <<2, 2, 1>>}
SampleVals == {0, 3}
\* the samples at the four positions of the 2x2 period, in the order
\* (0,0), (0,1), (1,0), (1,1)
Periods == {<<a, b, c, d>> : a, b, c, d \in SampleVals}
\* frames of a signed dtype are also offset by a bias: mixed signs, a
\* maximum of zero, and frames without a positive sample
Biases(dtype) == IF dtype \in {"uint8", "uint16"} THEN {0} ELSE {0, -3}
\* one sample may stand out of the periodic pattern
Peak(dtype) == IF dtype = "uint16" THEN U16Max ELSE 255
PeakAt == <<1, 1>>

Frame(dtype, shape, period, peak, bias) ==
    [dtype |-> dtype, shape |-> shape,
     px |-> [q \in Indices(shape) |->
                bias + (IF peak /\ Len(shape) = 2 /\ q = PeakAt THEN Peak(dtype)
                        ELSE period[2 * (q[1] % 2) + (q[Len(shape)] % 2) + 1])]]

Frames ==
    UNION {{Frame(dt, sh, pd, pk, bs) :
               sh \in Shapes, pd \in Periods, pk \in BOOLEAN,
               bs \in Biases(dt)} : dt \in Dtypes}

\* what a NaN may become under .astype(np.uint16)
NanCasts == {0, U16Max}

Empty == [k \in {} |-> 0]
NoResult == [ok |-> FALSE, dtype |-> "", imgs |-> <<>>]
NoError == [kind |-> "", at |-> ""]
DemosaicIdle ==
    /\ code = NotACode /\ img_raw = Empty /\ outer = <<>> /\ pc = "idle"
    /\ it = 0 /\ img_mpfa_bgr = Empty /\ img_bgr = <<>> /\ result = NoResult
    /\ err = NoError /\ ops = <<>> /\ calls = 0 /\ written = Empty
    /\ reads = Empty
StokesIdle ==
    /\ img_stokes = Empty /\ theta = <<>> /\ I = Empty /\ S = Empty
    /\ out = Empty /\ raised = FALSE /\ spc = "idle"
AoLPIdle == img_s12 = Empty /\ img_AoLP = Empty /\ apc = "idle"

(***************************************************************************)
(* SpecStokes: the kernels are applied to a Stokes image, then intensities *)
(* are synthesised from it and fitted.                                     *)
(***************************************************************************)
InitStokes ==
    /\ img_stokes \in StokesImages
    /\ theta = <<>> /\ I = Empty /\ S = Empty
    /\ out = Empty /\ raised = FALSE /\ spc = "Imax"
    /\ AoLPIdle /\ DemosaicIdle

\* a kernel returns its image; an arithmetic exception would end the call
KernelCall(name, res, next) ==
    /\ spc = name
    /\ IF \E p \in DOMAIN res : res[p].k = "err"
         THEN raised' = TRUE /\ out' = out
         ELSE raised' = raised /\ out' = (name :> res) @@ out
    /\ spc' = next
    /\ UNCHANGED <<img_stokes, theta, I, S, avars, dvars>>

CallImax == KernelCall("Imax", cvtStokesToImax(img_stokes), "Imin")
CallImin == KernelCall("Imin", cvtStokesToImin(img_stokes), "DoLP")
CallDoLP == KernelCall("DoLP", cvtStokesToDoLP(img_stokes), "Intensity")
CallIntensity == KernelCall("Intensity", cvtStokesToIntensity(img_stokes), "Diffuse")
CallDiffuse == KernelCall("Diffuse", cvtStokesToDiffuse(img_stokes), "Specular")
CallSpecular == KernelCall("Specular", cvtStokesToSpecular(img_stokes), "observe")

\* the synthetic intensities of the linear-fit check:
\* I_k = S0 + S1 cos 2 theta_k + S2 sin 2 theta_k
Observe ==
    /\ spc = "observe"
    /\ \E th \in AngleLists :
         /\ theta' = th
         /\ I' = [p \in Pixels |-> [k \in 1..Len(th) |->
                    RAdd(img_stokes[p][1],
                         RAdd(RMul(img_stokes[p][2], Z(Cos2(th[k]))),
                              RMul(img_stokes[p][3], Z(Sin2(th[k])))))]]
    /\ spc' = "fit"
    /\ UNCHANGED <<img_stokes, S, out, raised, avars, dvars>>

Fit ==
    /\ spc = "fit"
    /\ S' = calcLinearStokes(I, theta)
    /\ spc' = "done"
    /\ UNCHANGED <<img_stokes, theta, I, out, raised, avars, dvars>>

NextStokes ==
    \/ CallImax \/ CallImin \/ CallDoLP \/ CallIntensity
    \/ CallDiffuse \/ CallSpecular \/ Observe \/ Fit

SpecStokes == InitStokes /\ [][NextStokes]_vars

(***************************************************************************)
(* SpecAoLP                                                                *)
(***************************************************************************)
InitAoLP ==
    /\ img_s12 \in [Pixels -> AoLPInputs]
    /\ img_AoLP = Empty /\ apc = "call"
    /\ StokesIdle /\ DemosaicIdle

CallAoLP ==
    /\ apc = "call"
    /\ img_AoLP' = cvtStokesToAoLP(img_s12)
    /\ apc' = "done"
    /\ UNCHANGED <<img_s12, svars, dvars>>

NextAoLP == CallAoLP

SpecAoLP == InitAoLP /\ [][NextAoLP]_vars

(***************************************************************************)
(* SpecDemosaic: one call of demosaicing(img_raw, code).  pc names the     *)
(* line of demosaicing.py about to execute.                                *)
(***************************************************************************)
InitDemosaic ==
    /\ code \in Codes
    /\ img_raw \in Frames
    /\ outer = <<>> /\ pc = "L39" /\ it = 0
    /\ img_mpfa_bgr = Empty /\ img_bgr = <<>> /\ result = NoResult
    /\ err = NoError /\ ops = <<>> /\ calls = 1
    /\ written = Empty /\ reads = Empty
    /\ StokesIdle /\ AoLPIdle

H == img_raw.shape[1]
W == img_raw.shape[2]

\* the dtype check raising the class of the dimensionality check
DtypeError_Value == "ValueError"

\* the exception classes of the raise statements
CodeError == "TypeError"
DtypeError == "TypeError"
NdimError == "ValueError"

Raise(kind, at) ==
    /\ err' = [kind |-> kind, at |-> at]
    /\ pc' = "raised"
    /\ UNCHANGED <<svars, avars, code, img_raw, outer, it, img_mpfa_bgr, img_bgr, result,
                   ops, calls, written, reads>>

Goto(l) ==
    /\ pc' = l
    /\ UNCHANGED <<svars, avars, code, img_raw, outer, it, img_mpfa_bgr, img_bgr, result,
                   err, ops, calls, written, reads>>

\* lines 39-40
CheckCode ==
    /\ pc = "L39"
    /\ IF ~code.is_code THEN Raise(CodeError, "code") ELSE Goto("L44")

\* line 44 testing for "not an accepted integer dtype" instead of "floating"
CheckFloating_NotInteger ==
    /\ pc = "L44"
    /\ IF img_raw.dtype \notin {"uint8", "uint16"}
         THEN Goto("L47") ELSE Goto("L53")

\* line 44
CheckFloating ==
    /\ pc = "L44"
    /\ IF img_raw.dtype \in Floating THEN Goto("L47") ELSE Goto("L53")

\* lines 47-48: scale and img_raw_u16
Rescale ==
    /\ pc = "L47"
    /\ \E nan_cast \in NanCasts :
         LET mx == Max(Samples(img_raw.px))
         IN  /\ outer' = Append(outer, [frame |-> img_raw, mx |-> mx])
             /\ img_raw' = [dtype |-> "uint16", shape |-> img_raw.shape,
                            px |-> [q \in DOMAIN img_raw.px |->
                                       ToU16(img_raw.px[q], mx, nan_cast)]]
    /\ ops' = ops \o <<"max", "scale", "clip", "astype">>
    /\ pc' = "L49"
    /\ UNCHANGED <<svars, avars, code, it, img_mpfa_bgr, img_bgr, result, err, calls,
                   written, reads>>

\* line 49: demosaicing(img_raw_u16, code)
NestedCall ==
    /\ pc = "L49"
    /\ calls' = calls + 1
    /\ ops' = Append(ops, "call")
    /\ pc' = "L39"
    /\ UNCHANGED <<svars, avars, code, img_raw, outer, it, img_mpfa_bgr, img_bgr, result,
                   err, written, reads>>

\* lines 53-54
CheckDtype ==
    /\ pc = "L53"
    /\ IF img_raw.dtype \notin {"uint8", "uint16"}
         THEN Raise(DtypeError, "dtype") ELSE Goto("L56")

\* lines 56-57
CheckNdim ==
    /\ pc = "L56"
    /\ IF Len(img_raw.shape) # 2 THEN Raise(NdimError, "ndim") ELSE Goto("L59")

\* lines 59-62
Dispatch ==
    /\ pc = "L59"
    /\ IF code.is_color THEN Goto("L78") ELSE Goto("L65")

\* lines 65-73: __demosaicing_mono(img_raw, code.suffix)
Mono ==
    /\ pc = "L65"
    /\ IF ~CvSupports(code.suffix, img_raw.dtype)
         THEN Raise("cv2.error", "cvtColor")
         ELSE /\ result' = [ok |-> TRUE, dtype |-> img_raw.dtype,
                            imgs |-> demosaicing_mono(img_raw.px, H, W,
                                                      code.suffix)]
              /\ ops' = ops \o <<"debayer", "debayer">>
              /\ pc' = "return"
              /\ UNCHANGED <<svars, avars, code, img_raw, outer, it, img_mpfa_bgr, img_bgr,
                             err, calls, written, reads>>

\* lines 78-82: img_mpfa_bgr = np.empty(...)
ColorAlloc ==
    /\ pc = "L78"
    /\ img_mpfa_bgr' = [q \in Idx3(H, W, 3) |-> Uninit]
    /\ written' = [q \in Idx2(H, W) |-> 0]
    /\ reads' = [q \in Idx2(H, W) |-> {}]
    /\ it' = 0
    /\ pc' = "L83"
    /\ UNCHANGED <<svars, avars, code, img_raw, outer, img_bgr, result, err, ops, calls>>

\* lines 83-94: one iteration of the loops over j and i
Stage1 ==
    /\ pc = "L83"
    /\ LET j == it \div 2
           i == it % 2
           h2 == StrideLen(H, j)
           w2 == StrideLen(W, i)
           img_bayer_ij == DownSample(img_raw.px, H, W, j, i)
           img_bgr_ij == Debayer(img_bayer_ij, h2, w2, "BG", code.suffix)
           buf == UpSample(img_mpfa_bgr, H, W, img_bgr_ij, j, i)
           hit == StrideTargets(H, W, j, i)
       IN  IF ~CvSupports(code.suffix, img_raw.dtype)
             THEN Raise("cv2.error", "cvtColor")
             ELSE /\ img_mpfa_bgr' = buf
                  /\ written' = [q \in Idx2(H, W) |->
                        IF q \in hit THEN written[q] + 1 ELSE written[q]]
                  /\ reads' = [q \in Idx2(H, W) |->
                        IF q \in hit
                          THEN reads[q] \cup
                               {StrideIndex(j, i, r[1], r[2]) :
                                  r \in DebayerReads(h2, w2, q[1] \div 2,
                                                     q[2] \div 2)}
                          ELSE reads[q]]
                  /\ ops' = Append(ops, "debayer")
                  /\ it' = it + 1
                  /\ pc' = IF it = 3 THEN "L97" ELSE "L83"
                  /\ UNCHANGED <<svars, avars, code, img_raw, outer, img_bgr, result, err,
                                 calls>>

\* lines 97-100: the four output buffers
Stage2Alloc ==
    /\ pc = "L97"
    /\ img_bgr' = [k \in 1..4 |-> [q \in Idx3(H, W, 3) |-> Uninit]]
    /\ it' = 0
    /\ pc' = "L101"
    /\ UNCHANGED <<svars, avars, code, img_raw, outer, img_mpfa_bgr, result, err, ops,
                   calls, written, reads>>

\* lines 101-106: one iteration of the loop over the planes
Stage2 ==
    /\ pc = "L101"
    /\ LET img_mpfa == Channel(img_mpfa_bgr, H, W, it)
       IN  img_bgr' = SetPlane(img_bgr, it,
                               demosaicing_mono(img_mpfa, H, W, code.suffix))
    /\ ops' = ops \o <<"debayer", "debayer">>
    /\ it' = it + 1
    /\ pc' = IF it = 2 THEN "L108" ELSE "L101"
    /\ UNCHANGED <<svars, avars, code, img_raw, outer, img_mpfa_bgr, result, err, calls,
                   written, reads>>

\* line 108
ColorReturn ==
    /\ pc = "L108"
    /\ result' = [ok |-> TRUE, dtype |-> img_raw.dtype, imgs |-> img_bgr]
    /\ pc' = "return"
    /\ UNCHANGED <<svars, avars, code, img_raw, outer, it, img_mpfa_bgr, img_bgr, err, ops,
                   calls, written, reads>>

\* the innermost call returns: to its caller at line 50, or to the user
Return ==
    /\ pc = "return"
    /\ IF outer = <<>> THEN Goto("done") ELSE Goto("L50")

\* lines 50-51: (img_demosaiced_u16 / scale).astype(img_raw.dtype)
Rescaled ==
    /\ pc = "L50"
    /\ LET top == outer[Len(outer)]
       IN  /\ result' = [ok |-> TRUE, dtype |-> top.frame.dtype,
                         imgs |-> [k \in 1..4 |->
                                     [q \in DOMAIN result.imgs[k] |->
                                        Unscale(result.imgs[k][q], top.mx)]]]
           /\ img_raw' = top.frame
    /\ outer' = SubSeq(outer, 1, Len(outer) - 1)
    /\ ops' = ops \o <<"unscale", "astype">>
    /\ pc' = "done"
    /\ UNCHANGED <<svars, avars, code, it, img_mpfa_bgr, img_bgr, err, calls, written, reads>>

NextDemosaic ==
    \/ CheckCode \/ CheckFloating \/ Rescale \/ NestedCall \/ CheckDtype
    \/ CheckNdim \/ Dispatch \/ Mono \/ ColorAlloc \/ Stage1 \/ Stage2Alloc
    \/ Stage2 \/ ColorReturn \/ Return \/ Rescaled

SpecDemosaic == InitDemosaic /\ [][NextDemosaic]_vars

(***************************************************************************)
(* All three drivers together                                              *)
(***************************************************************************)
Init == InitDemosaic \/ InitStokes \/ InitAoLP
Next == NextDemosaic \/ NextStokes \/ NextAoLP
Spec == Init /\ [][Next]_vars

(***************************************************************************)
(* Properties of demosaicing (SpecDemosaic)                                *)
(***************************************************************************)
Returned == pc = "done"
ValidationError == pc = "raised" /\ err.at \in {"code", "dtype", "ndim"}
\* the frame and dtype the user passed
UserFrame == IF outer = <<>> THEN img_raw ELSE outer[1].frame
IsMosaic(f) ==
    Len(f.shape) = 2 /\ f.shape[1] % 2 = 0 /\ f.shape[2] % 2 = 0
\* the samples are constant per position of the 2x2 period
Periodic(f) ==
    \A q \in DOMAIN f.px : f.px[q] = f.px[<<q[1] % 2, q[2] % 2>>]
ConstantImage(img, h, w, v) ==
    DOMAIN img = Idx2(h, w) /\ \A q \in Idx2(h, w) : img[q] = v
MonoScenario ==
    /\ Returned /\ ~code.is_color /\ img_raw.dtype = "uint8"
    /\ IsMosaic(img_raw) /\ Periodic(img_raw)
\* with a, b, c, d the samples at (0,0), (0,1), (1,0), (1,1)
ListDBCA(f) ==
    <<f.px[<<1, 1>>], f.px[<<0, 1>>], f.px[<<1, 0>>], f.px[<<0, 0>>]>>
ListDBAC(f) ==
    <<f.px[<<1, 1>>], f.px[<<0, 1>>], f.px[<<0, 0>>], f.px[<<1, 0>>]>>
MonoExpected(vals) ==
    /\ Len(result.imgs) = 4
    /\ \A k \in 1..4 : ConstantImage(result.imgs[k], H, W, vals[k])

AcceptedCall ==
    /\ code.is_code /\ IsMosaic(UserFrame)
    /\ UserFrame.dtype \in {"uint8", "uint16"} \cup Floating
ImageDomain == IF code.is_color THEN Idx3(H, W, 3) ELSE Idx2(H, W)

\* C2: for every recognized descriptor and every accepted dtype, a valid
\* even-dimensioned mosaic is demosaiced (the call does not fail) into
\* exactly 4 images of the mosaic's height and width, single-channel for
\* mono and 3-channel for color.
C2_FourImages ==
    AcceptedCall =>
        /\ pc # "raised"
        /\ Returned =>
             /\ Len(result.imgs) = 4
             /\ \A k \in 1..4 : DOMAIN result.imgs[k] = ImageDomain

\* C3 as stated: the three failed checks are reported by three distinct
\* kinds of error.
C3_ThreeKinds ==
    ValidationError =>
        /\ err.at = "code" => err.kind = "TypeError"
        /\ err.at = "dtype" => err.kind \notin {"TypeError", "ValueError"}
        /\ err.at = "ndim" => err.kind \notin {"TypeError", DtypeError}
        /\ ~result.ok

\* C3 amended: an unrecognized descriptor and a dtype that is neither
\* uint8, uint16 nor floating point both fail with TypeError, a frame that
\* is not 2-dimensional fails with ValueError; a call fails this way exactly
\* when one of the three holds, and a failed call returns no images.
C3_TwoKinds ==
    /\ ValidationError =>
        /\ err.at = "code" => err.kind = "TypeError" /\ ~code.is_code
        /\ err.at = "dtype" =>
             /\ err.kind = "TypeError"
             /\ UserFrame.dtype \notin {"uint8", "uint16"} \cup Floating
        /\ err.at = "ndim" =>
             err.kind = "ValueError" /\ Len(UserFrame.shape) # 2
        /\ ~result.ok
    /\ Returned =>
        /\ code.is_code /\ Len(UserFrame.shape) = 2
        /\ UserFrame.dtype \in {"uint8", "uint16"} \cup Floating

C3_Witness == ValidationError /\ err.at = "dtype" /\ code.is_code

\* C4 as stated: nothing is computed on the frame before a validation error.
C4_NothingBefore == ValidationError => ops = <<>> /\ ~result.ok

\* C4 amended: before a validation error no debayer step is executed and
\* no result is produced; a frame that is not floating point is not touched
\* at all, while a floating point frame has been reduced to its maximum,
\* rescaled, converted and passed to the nested call, whose check of the
\* dimensionality is the one that fails.
C4_NoDebayerBefore ==
    ValidationError =>
        /\ ~result.ok
        /\ \A n \in 1..Len(ops) : ops[n] \notin {"debayer", "unscale"}
        /\ UserFrame.dtype \notin Floating => ops = <<>> /\ calls = 1
        /\ err.at = "code" => ops = <<>>
        /\ ops # <<>> =>
             /\ ops = <<"max", "scale", "clip", "astype", "call">>
             /\ UserFrame.dtype \in Floating /\ err.at = "ndim" /\ calls = 2

C4_Witness ==
    ValidationError /\ UserFrame.dtype \in Floating /\ err.at = "ndim"

DtypeMax(dtype) == IF dtype = "uint8" THEN 255 ELSE U16Max
OutputValues == {result.imgs[k][q] : k \in 1..4, q \in DOMAIN result.imgs[1]}
InputMin == Min(Samples(img_raw.px))
InputMax == Max(Samples(img_raw.px))
NestedCalls == Cardinality({n \in 1..Len(ops) : ops[n] = "call"})

\* the part of C9 that is not about the range of the floating point output
DtypeClosure ==
    /\ outer # <<>> =>
         /\ Len(outer) = 1 /\ outer[1].frame.dtype \in Floating
         /\ img_raw.dtype = "uint16"
         /\ pc # "L49" => calls = 2
    /\ Returned =>
         /\ result.dtype = img_raw.dtype
         /\ img_raw.dtype \in {"uint8", "uint16"} =>
              /\ calls = 1 /\ NestedCalls = 0
              /\ \A v \in OutputValues : v \in 0..DtypeMax(img_raw.dtype)
         /\ img_raw.dtype \in Floating =>
              /\ calls = 2 /\ NestedCalls = 1
              /\ ops[1] = "max" /\ ops[Len(ops)] = "astype"

\* C9 as stated: dtype closure, and for a floating point frame every output
\* value lies within the input's range of values, up to one step of the
\* 16-bit rescaling.
C9_WithinInputRange ==
    /\ DtypeClosure
    /\ (Returned /\ img_raw.dtype \in Floating) =>
         \A v \in OutputValues :
            /\ RLe(Q(InputMin * U16Max - Abs(InputMax), U16Max), v)
            /\ RLe(v, Z(InputMax))

\* C9 amended: for uint8 and uint16 input every returned image has the
\* input's dtype; a floating point frame is rescaled to the 16-bit range,
\* demosaiced by exactly one nested call on a uint16 frame and rescaled
\* back, the output has the input's dtype, and every output value lies
\* within the input's range of values extended to contain 0.
C9_WithinRangeAndZero ==
    /\ DtypeClosure
    /\ (Returned /\ img_raw.dtype \in Floating) =>
         \A v \in OutputValues :
            /\ RLe(Z(IF InputMin < 0 THEN InputMin ELSE 0), v)
            /\ RLe(v, Z(IF InputMax > 0 THEN InputMax ELSE 0))

C9_Witness ==
    /\ Returned /\ img_raw.dtype = "float32" /\ code.is_color
    /\ InputMin < 0 /\ InputMax > 0
    /\ \E v \in OutputValues : v.n > 0 /\ v # Z(InputMax)

\* ---- the color path ----
ParityClass(q) ==
    {r \in Idx2(H, W) : r[1] % 2 = q[1] % 2 /\ r[2] % 2 = q[2] % 2}
InStage1 == pc = "L83"
ColorReturned == pc = "return" /\ code.is_color
Stage1Done == pc \in {"L97", "L101", "L108"} \/ ColorReturned
Stage2Done == pc = "L108" \/ ColorReturned
\* the debayered strided sub-image of parity (j, i)
SubImageBGR(j, i) ==
    LET h2 == H \div 2
        w2 == W \div 2
        sub == [r \in Idx2(h2, w2) |-> img_raw.px[<<2 * r[1] + j, 2 * r[2] + i>>]]
    IN  Debayer(sub, h2, w2, "BG", code.suffix)

\* C10: stage 1 writes the debayered sub-image of parity (j, i) to exactly
\* the pixels of parity (j, i); after its four iterations every pixel of the
\* buffer has been written exactly once, with a value computed only from
\* samples of its own parity class; stage 2 fills channel c of each of the
\* four outputs with the mono demosaic of plane c and leaves no element
\* unwritten.
C10_ColorStages ==
    /\ InStage1 =>
         \A q \in Idx2(H, W) :
            LET done == 2 * (q[1] % 2) + (q[2] % 2) < it
            IN  /\ written[q] = (IF done THEN 1 ELSE 0)
                /\ ~done => \A c \in 0..2 : img_mpfa_bgr[<<q[1], q[2], c>>] = Uninit
    /\ Stage1Done =>
         \A q \in Idx2(H, W) :
            /\ written[q] = 1
            /\ reads[q] \subseteq ParityClass(q)
            /\ \A c \in 0..2 :
                 /\ img_mpfa_bgr[<<q[1], q[2], c>>] # Uninit
                 /\ img_mpfa_bgr[<<q[1], q[2], c>>] =
                      SubImageBGR(q[1] % 2, q[2] % 2)[<<q[1] \div 2, q[2] \div 2, c>>]
    /\ Stage2Done =>
         /\ Len(img_bgr) = 4
         /\ \A c \in 0..2 :
              LET mono == demosaicing_mono(Channel(img_mpfa_bgr, H, W, c),
                                           H, W, code.suffix)
              IN  \A k \in 1..4 : \A q \in Idx2(H, W) :
                     /\ img_bgr[k][<<q[1], q[2], c>>] # Uninit
                     /\ img_bgr[k][<<q[1], q[2], c>>] = mono[k][q]
    /\ ColorReturned => result.imgs = img_bgr

C10_Witness ==
    /\ pc = "L108" /\ H = 6 /\ W = 6
    /\ \A q \in Idx2(H, W) : reads[q] # {}
    /\ \E q \in DOMAIN img_mpfa_bgr : img_mpfa_bgr[q] > 0
    /\ \E q, r \in DOMAIN img_bgr[1] : img_bgr[1][q] # img_bgr[1][r]

(***************************************************************************)
(* Properties of the Stokes engine and the kernels                         *)
(***************************************************************************)
FourAngles == <<0, 45, 90, 135>>
Fitted == spc = "done" /\ theta = FourAngles

KernelsDone == spc \in {"observe", "fit", "done"}

\* C6: at every pixel Imax - Imin = Specular, Intensity = (Imax + Imin) / 2
\* and Diffuse = Imin.
C6_KernelSymmetry ==
    KernelsDone =>
        \A p \in Pixels :
           /\ RSub(out["Imax"][p], out["Imin"][p]) = out["Specular"][p]
           /\ out["Intensity"][p] = RMul(RAdd(out["Imax"][p], out["Imin"][p]), Half)
           /\ out["Diffuse"][p] = out["Imin"][p]

C6_Witness ==
    /\ KernelsDone
    /\ \E p \in Pixels : out["Specular"][p].n # 0 /\ out["Imin"][p].n < 0
    /\ \E p \in Pixels : out["Specular"][p].d # 1

\* C7: every pixel of cvtStokesToAoLP is at least 0 and less than pi.
C7_AoLPRange ==
    apc = "done" => \A p \in Pixels : 0 <= img_AoLP[p] /\ img_AoLP[p] < FPi

AllZero == \A p \in Pixels : \A r \in 1..3 : img_stokes[p][r] = Z(0)

\* C8: cvtStokesToDoLP raises nothing, whatever S0 is, and of an all-zero
\* Stokes image it returns a non-finite value at every pixel.
C8_DoLPNotAnError ==
    spc \notin {"Imax", "Imin", "DoLP"} =>
        /\ ~raised /\ "DoLP" \in DOMAIN out
        /\ \A p \in Pixels :
              img_stokes[p][1] = Z(0) => ~IsFinite(out["DoLP"][p])
        /\ AllZero => \A p \in Pixels : out["DoLP"][p] = NaN

C8_Witness ==
    /\ spc = "Intensity" /\ AllZero
    /\ \A p \in Pixels : out["DoLP"][p].k = "nan"

====
